---- MODULE Spec2Model ----
(***************************************************************************)
(* Faculty dashboard (src/app.py): the Excel record store, the SerpAPI     *)
(* metrics fetcher fetch_scholar_data and the Flask handlers fetch_one,    *)
(* add_faculty, delete_faculty and update_excel.                           *)
(*                                                                         *)
(* Text is modelled as a sequence of tokens: "user=" in url is token       *)
(* membership, url.startswith("http") is a test of the first token and     *)
(* strip() drops the blank tokens at both ends.  A pandas NaN cell is the  *)
(* one-token text NaN, which str() turns into the text nan.                *)
(***************************************************************************)
EXTENDS Integers, Sequences, FiniteSets, TLC

\* ------------------------------------------------------------------ bounds
MaxRows == 3
MaxOps == 2
MaxVal == 3

\* ------------------------------------------------------- program constants
ADMIN_PASSWORD == "pratik123"
DATA_PATH == "data/faculty_data.xlsx"
UPDATED_PATH == "data/faculty_data_updated.xlsx"
SLEEP_BETWEEN_CALLS == 1
retries == 2

\* Python's None: as a metric cell, as a missing dict key, as a function result.
None == -1
NoneData == << >>
NaN == <<"<NaN>">>

\* ------------------------------------------------------------ text helpers
Contains(text, tok) == \E i \in 1..Len(text) : text[i] = tok

StartsWith(text, tok) == Len(text) >= 1 /\ text[1] = tok

RECURSIVE LStrip(_)
LStrip(text) ==
    IF text # << >> /\ Head(text) = " " THEN LStrip(Tail(text)) ELSE text

RECURSIVE RStrip(_)
RStrip(text) ==
    IF text # << >> /\ text[Len(text)] = " "
    THEN RStrip(SubSeq(text, 1, Len(text) - 1))
    ELSE text

Strip(text) == RStrip(LStrip(text))

Str(cell) == IF cell = NaN THEN <<"nan">> ELSE cell

\* Names are atoms; lower() and strip() are given by their graph on the names used.
Lower(name) ==
    CASE name \in {"Ann", "ANN", "ann"} -> "ann"
      [] name \in {"Bob", "bob"} -> "bob"
      [] name = " Bob " -> " bob "
      [] OTHER -> name

StripName(name) == IF name = " Bob " THEN "Bob" ELSE name

\* ----------------------------------------------------- the external API
\* One windowed metric group: window label -> value, None where the key is absent.
WindowDicts ==
    [all : {None, 0, MaxVal + 2},
     since_2020 : {None, 0, MaxVal},
     since_2019 : {None, 0, MaxVal + 1}]

OnlyAll(v) == [all |-> v, since_2020 |-> None, since_2019 |-> None]

\* results of search.get_dict(): an exception, or author.name and cited_by.table
NoName == ""
ApiError == [error |-> TRUE, name |-> NoName, table |-> << >>]

Response(name, table) == [error |-> FALSE, name |-> name, table |-> table]

ExampleTable == <<OnlyAll(120), OnlyAll(9), OnlyAll(4)>>

\* ------------------------------------------------------ fetch_scholar_data
\* x.get("all") or x.get("since_2020") or x.get("since_2019") or 0
Truthy(v) == v # None /\ v # 0

\* the two windowed keys read in the wrong order
PickWindowSwapped(d) ==
    IF Truthy(d.all) THEN d.all
    ELSE IF Truthy(d.since_2019) THEN d.since_2019
    ELSE IF Truthy(d.since_2020) THEN d.since_2020
    ELSE 0

PickWindow(d) ==
    IF Truthy(d.all) THEN d.all
    ELSE IF Truthy(d.since_2020) THEN d.since_2020
    ELSE IF Truthy(d.since_2019) THEN d.since_2019
    ELSE 0

GroupAt(table, pos) == IF Len(table) >= pos THEN PickWindow(table[pos]) ELSE 0

AuthorName(resp) == IF resp.name = NoName THEN "Unknown" ELSE resp.name

Normalize(resp) ==
    [Name |-> AuthorName(resp),
     Citations |-> GroupAt(resp.table, 1),
     H_index |-> GroupAt(resp.table, 2),
     i10_index |-> GroupAt(resp.table, 3)]

\* the emptiness test without its name condition
LooksEmptyAnyName(m) == m.Citations = 0 /\ m.H_index = 0

\* the emptiness test without its h-index condition
LooksEmptyNoH(m) == m.Name = "Unknown" /\ m.Citations = 0

LooksEmpty(m) == m.Name = "Unknown" /\ m.Citations = 0 /\ m.H_index = 0

\* The attempt loop.  The log holds one "search" per GoogleSearch call and one
\* "sleep" per time.sleep(SLEEP_BETWEEN_CALLS).
RECURSIVE AttemptLoop(_, _, _)
AttemptLoop(attempt, resps, log) ==
    IF attempt > retries
    THEN [data |-> NoneData, log |-> log]
    ELSE LET resp == resps[attempt]
             called == Append(log, "search")
         IN  IF resp.error
             THEN AttemptLoop(attempt + 1, resps, Append(called, "sleep"))
             ELSE IF LooksEmpty(Normalize(resp))
             THEN AttemptLoop(attempt + 1, resps, Append(called, "sleep"))
             ELSE [data |-> <<Normalize(resp)>>, log |-> called]

\* the "user=" check left out
fetch_unvalidated(profile_url, resps) == AttemptLoop(1, resps, << >>)

fetch_scholar_data(profile_url, resps) ==
    IF ~Contains(profile_url, "user=")
    THEN [data |-> NoneData, log |-> << >>]
    ELSE AttemptLoop(1, resps, << >>)

Count(log, ev) == Cardinality({i \in 1..Len(log) : log[i] = ev})

\* ------------------------------------------------------------------ state
VARIABLES
    disk,   \* path -> [exists, rows]: the two Excel files
    last,   \* the latest request handled and the view it rendered
    bulk,   \* the update_excel request in progress (its locals), then its report
    ops,    \* number of requests received
    fq      \* one call of fetch_scholar_data: its arguments and its return

vars == <<disk, last, bulk, ops, fq>>

Paths == {DATA_PATH, UPDATED_PATH}

NoFile == [exists |-> FALSE, rows |-> << >>]

File(rows) == [exists |-> TRUE, rows |-> rows]

\* Profile URL cells found in the sheet or typed in the add form.
GoodURL == <<"http", "scholar.google", "user=", "abc", "&", "hl=en">>
PaddedURL == <<" ">> \o GoodURL \o <<" ">>
BlankURL == <<" ">>
NoSchemeURL == <<"scholar.google", "user=", "abc">>
NoUserURL == <<"http", "scholar.google", "citations">>
OtherSiteURL == <<"http", "example.org", "user=", "abc">>

SheetURLs == {GoodURL, NaN, BlankURL, NoUserURL}
FormURLs == {<< >>, PaddedURL, NoSchemeURL, NoUserURL, OtherSiteURL}

\* The sheet's rows are named Ann, Bob, Ann, ... down the table.
SheetName(i) == IF i % 2 = 1 THEN "Ann" ELSE "Bob"
LookupNames == {"", "ann", " Bob "}
NewNames == {"", "ANN", " Bob "}
Passwords == {ADMIN_PASSWORD, "letmein"}

\* df.to_excel(path): written, or refused because the file is open elsewhere
SaveOutcomes == {"ok", "PermissionError"}

\* API answers drawn while the handlers run
RespA == Response("J. Doe", ExampleTable)
RespNothing == Response(NoName, << >>)
HandlerResps == {ApiError, RespNothing, RespA}

NewRow(n, name, url) ==
    [Sr_No |-> n, Name |-> name, URL |-> url,
     Citations |-> None, h_index |-> None, i10_index |-> None]

RECURSIVE Tables(_)
Tables(n) ==
    IF n = 0 THEN {<< >>}
    ELSE Tables(n - 1) \cup
         {Append(t, NewRow(n, SheetName(n), url)) :
            t \in {u \in Tables(n - 1) : Len(u) = n - 1}, url \in SheetURLs}

\* ----------------------------------------------------------- record store
load_faculty_df(d) == d[DATA_PATH]

save_faculty_df(d, df, path, outcome) ==
    IF outcome = "ok" THEN [d EXCEPT ![path] = File(df)] ELSE d

\* try: save_faculty_df(...)  except PermissionError: print(...)
\* the handler without its except clause
CaughtNothing(outcome) == FALSE

Caught(outcome) == outcome = "PermissionError"

Completes(outcome) == outcome = "ok" \/ Caught(outcome)

\* ---------------------------------------------------------------- views
\* render_template(...): the request it answers (seq, op, name), the kind of page,
\* its text, what the save did ("none" when no save was tried) and the data shown.
View(op, kind, text, name, save, data) ==
    [seq |-> ops + 1, op |-> op, kind |-> kind, text |-> text, name |-> name,
     save |-> save, data |-> data]

ErrorView(op, text, name) == View(op, "error", text, name, "none", NoneData)

NoView == [seq |-> 0, op |-> "none", kind |-> "none", text |-> "", name |-> "",
           save |-> "none", data |-> NoneData]

Merge(row, m) ==
    [row EXCEPT !.Citations = m.Citations,
                !.h_index = m.H_index,
                !.i10_index = m.i10_index]

Mask(df, faculty_name) ==
    {i \in 1..Len(df) : Lower(df[i].Name) = Lower(faculty_name)}

First(S) == CHOOSE i \in S : \A j \in S : i <= j

\* The locals of the running request: df, the loop position idx, updated_count,
\* failed_list; per row whether fetch_scholar_data was called, what it returned
\* and how many time.sleep calls the row took; and the view once rendered.
NoReport == [updated |-> 0, total |-> 0, failed_list |-> << >>, download_ready |-> FALSE]

IdleBulk ==
    [pc |-> "idle", before |-> NoFile, df |-> << >>, idx |-> 1, updated_count |-> 0,
     failed_list |-> << >>, called |-> << >>, fetched |-> << >>, sleeps |-> << >>, save |-> "none",
     report |-> NoReport]

\* ------------------------------------------------------------- fetch_one
UpdateMasked(df, mask, m) ==
    [i \in 1..Len(df) |-> IF i \in mask THEN Merge(df[i], m) ELSE df[i]]

fetch_one(form_name, resps, outcome) ==
    LET faculty_name == StripName(form_name)
        file == load_faculty_df(disk)
        df == file.rows
        mask == Mask(df, faculty_name)
        url == Strip(Str(df[First(mask)].URL))
        f == fetch_scholar_data(url, resps)
    IN  /\ bulk.pc # "loop"
        /\ ops < MaxOps
        /\ ops' = ops + 1
        /\ bulk' = IdleBulk
        /\ UNCHANGED fq
        /\ IF faculty_name = ""
           THEN /\ last' = ErrorView("fetch_one", "select a name", faculty_name)
                /\ UNCHANGED disk
           ELSE IF ~file.exists
           THEN /\ last' = ErrorView("fetch_one", "file not found", faculty_name)
                /\ UNCHANGED disk
           ELSE IF mask = {}
           THEN /\ last' = ErrorView("fetch_one", "no faculty found", faculty_name)
                /\ UNCHANGED disk
           ELSE IF f.data = NoneData
           THEN /\ last' = ErrorView("fetch_one", "failed to fetch", faculty_name)
                /\ UNCHANGED disk
           ELSE /\ disk' = save_faculty_df(disk, UpdateMasked(df, mask, f.data[1]),
                                           DATA_PATH, outcome)
                /\ last' = IF Completes(outcome)
                           THEN View("fetch_one", "data", "", faculty_name, outcome, f.data)
                           ELSE View("fetch_one", "raised", "", faculty_name, outcome, NoneData)

\* ----------------------------------------------------------- add_faculty
NextSrNo(df) == Len(df) + 1

add_faculty(admin_password, new_name, new_url, outcome) ==
    LET faculty_name == StripName(new_name)
        faculty_url == Strip(new_url)
        file == load_faculty_df(disk)
        df == file.rows
        new_row == NewRow(NextSrNo(df), faculty_name, faculty_url)
    IN  /\ bulk.pc # "loop"
        /\ ops < MaxOps
        /\ Len(df) < MaxRows
        /\ ops' = ops + 1
        /\ bulk' = IdleBulk
        /\ UNCHANGED fq
        /\ IF admin_password # ADMIN_PASSWORD
           THEN /\ last' = ErrorView("add_faculty", "invalid password", faculty_name)
                /\ UNCHANGED disk
           ELSE IF faculty_name = "" \/ faculty_url = << >>
           THEN /\ last' = ErrorView("add_faculty", "name and url required", faculty_name)
                /\ UNCHANGED disk
           ELSE IF ~Contains(faculty_url, "scholar.google") \/ ~Contains(faculty_url, "user=")
           THEN /\ last' = ErrorView("add_faculty", "invalid url", faculty_name)
                /\ UNCHANGED disk
           ELSE IF ~file.exists
           THEN /\ last' = ErrorView("add_faculty", "file not found", faculty_name)
                /\ UNCHANGED disk
           ELSE /\ disk' = save_faculty_df(disk, Append(df, new_row), DATA_PATH, outcome)
                /\ last' = View("add_faculty",
                                IF Completes(outcome) THEN "message" ELSE "raised",
                                "added", faculty_name, outcome, NoneData)

\* -------------------------------------------------------- delete_faculty
Keep(df, faculty_name) ==
    SelectSeq(df, LAMBDA row : Lower(row.Name) # Lower(faculty_name))

\* the rows kept with the numbers they had
RenumberForgotten(df) == df

Renumber(df) == [i \in 1..Len(df) |-> [df[i] EXCEPT !.Sr_No = i]]

delete_faculty(admin_password, delete_name, outcome) ==
    LET faculty_name == StripName(delete_name)
        file == load_faculty_df(disk)
        df == file.rows
        new_df == Keep(df, faculty_name)
    IN  /\ bulk.pc # "loop"
        /\ ops < MaxOps
        /\ ops' = ops + 1
        /\ bulk' = IdleBulk
        /\ UNCHANGED fq
        /\ IF admin_password # ADMIN_PASSWORD
           THEN /\ last' = ErrorView("delete_faculty", "invalid password", faculty_name)
                /\ UNCHANGED disk
           ELSE IF faculty_name = ""
           THEN /\ last' = ErrorView("delete_faculty", "select a name", faculty_name)
                /\ UNCHANGED disk
           ELSE IF ~file.exists
           THEN /\ last' = ErrorView("delete_faculty", "file not found", faculty_name)
                /\ UNCHANGED disk
           ELSE IF Len(new_df) = Len(df)
           THEN /\ last' = ErrorView("delete_faculty", "no faculty found", faculty_name)
                /\ UNCHANGED disk
           ELSE /\ disk' = save_faculty_df(disk, Renumber(new_df), DATA_PATH, outcome)
                /\ last' = View("delete_faculty",
                                IF Completes(outcome) THEN "message" ELSE "raised",
                                "deleted", faculty_name, outcome, NoneData)

\* ---------------------------------------------------------- update_excel
\* only the empty reference is skipped
SkippedWhenEmpty(url) == url = << >>

Skipped(url) == url = << >> \/ ~StartsWith(url, "http")

\* the loop's time.sleep left out
LoopSleepsNone(url) == 0

\* time.sleep(SLEEP_BETWEEN_CALLS) at the end of the loop body: one call
LoopSleeps(url) == 1

update_excel_start ==
    LET file == load_faculty_df(disk)
    IN  /\ ops < MaxOps
        /\ bulk.pc # "loop"
        /\ ops' = ops + 1
        /\ bulk' = IF ~file.exists
                   THEN [IdleBulk EXCEPT !.pc = "error"]
                   ELSE [IdleBulk EXCEPT !.pc = "loop", !.before = file, !.df = file.rows]
        /\ last' = NoView
        /\ UNCHANGED <<disk, fq>>

update_excel_row(resps) ==
    LET df == bulk.df
        idx == bulk.idx
        name == df[idx].Name
        url == Strip(Str(df[idx].URL))
        f == fetch_scholar_data(url, resps)
    IN  /\ bulk.pc = "loop"
        /\ idx <= Len(df)
        /\ bulk' =
             IF Skipped(url)
             THEN [bulk EXCEPT !.idx = idx + 1,
                               !.failed_list = Append(@, name),
                               !.called = Append(@, FALSE),
                               !.fetched = Append(@, NoneData),
                               !.sleeps = Append(@, 0)]
             ELSE IF f.data # NoneData
             THEN [bulk EXCEPT !.idx = idx + 1,
                               !.df[idx] = Merge(@, f.data[1]),
                               !.updated_count = @ + 1,
                               !.called = Append(@, TRUE),
                               !.fetched = Append(@, f.data),
                               !.sleeps = Append(@, Count(f.log, "sleep") + LoopSleeps(url))]
             ELSE [bulk EXCEPT !.idx = idx + 1,
                               !.failed_list = Append(@, name),
                               !.called = Append(@, TRUE),
                               !.fetched = Append(@, f.data),
                               !.sleeps = Append(@, Count(f.log, "sleep") + LoopSleeps(url))]
        /\ UNCHANGED <<disk, last, ops, fq>>

\* the bulk run saved over the primary file
BulkDestinationPrimary == DATA_PATH

BulkDestination == UPDATED_PATH

update_excel_save(outcome) ==
    /\ bulk.pc = "loop"
    /\ bulk.idx > Len(bulk.df)
    /\ disk' = save_faculty_df(disk, bulk.df, BulkDestination, outcome)
    /\ bulk' = [bulk EXCEPT !.pc = IF Completes(outcome) THEN "done" ELSE "raised",
                            !.save = outcome,
                            !.report = [updated |-> bulk.updated_count,
                                        total |-> Len(bulk.df),
                                        failed_list |-> bulk.failed_list,
                                        download_ready |-> disk'[UPDATED_PATH].exists]]
    /\ UNCHANGED <<last, ops, fq>>

\* ------------------------------------------------------- the web application
NoCall == [url |-> << >>, resps |-> << >>, done |-> TRUE, data |-> NoneData, log |-> << >>]

Init ==
    /\ disk \in [Paths -> {NoFile} \cup {File(t) : t \in Tables(MaxRows)}]
    /\ disk[UPDATED_PATH] = NoFile
    /\ last = NoView
    /\ bulk = IdleBulk
    /\ ops = 0
    /\ fq = NoCall

Next ==
    \/ \E n \in LookupNames, r \in [1..retries -> HandlerResps], o \in SaveOutcomes :
          fetch_one(n, r, o)
    \/ \E pw \in Passwords, n \in NewNames, u \in FormURLs, o \in SaveOutcomes :
          add_faculty(pw, n, u, o)
    \/ \E pw \in Passwords, n \in LookupNames, o \in SaveOutcomes :
          delete_faculty(pw, n, o)
    \/ update_excel_start
    \/ \E r \in [1..retries -> HandlerResps] : update_excel_row(r)
    \/ \E o \in SaveOutcomes : update_excel_save(o)

Spec == Init /\ [][Next]_vars

\* ------------------------------------------- fetch_scholar_data on its own
\* One call: its arguments are drawn at the start, call_fetch runs it.
RespZero == Response("A. Roe", <<OnlyAll(0), OnlyAll(0), OnlyAll(0)>>)
RespNoNameCited == Response(NoName, ExampleTable)
RespNoNameI10 == Response(NoName, <<OnlyAll(0), OnlyAll(0), OnlyAll(4)>>)

FetchResps == {ApiError, RespNothing, RespA, RespZero, RespNoNameCited, RespNoNameI10}
FetchURLs == {GoodURL, NoSchemeURL, NoUserURL, <<"nan">>, << >>}

RECURSIVE ApiTables(_)
ApiTables(n) ==
    IF n = 0 THEN {<< >>}
    ELSE ApiTables(n - 1) \cup
         {Append(t, d) : t \in {u \in ApiTables(n - 1) : Len(u) = n - 1}, d \in WindowDicts}

ApiResponses ==
    {Response(name, table) : name \in {NoName, "J. Doe"}, table \in ApiTables(3)}

Call(url, resps) ==
    [url |-> url, resps |-> resps, done |-> FALSE, data |-> NoneData, log |-> << >>]

call_fetch ==
    /\ ~fq.done
    /\ fq' = [fq EXCEPT !.done = TRUE,
                        !.data = fetch_scholar_data(fq.url, fq.resps).data,
                        !.log = fetch_scholar_data(fq.url, fq.resps).log]
    /\ UNCHANGED <<disk, last, bulk, ops>>

InitFetch ==
    /\ disk = [p \in Paths |-> NoFile]
    /\ last = NoView
    /\ bulk = IdleBulk
    /\ ops = 0
    /\ fq \in {Call(u, r) : u \in FetchURLs, r \in [1..retries -> FetchResps]}
              \cup {Call(GoodURL, <<r, ApiError>>) : r \in ApiResponses}

NextFetch == call_fetch

SpecFetch == InitFetch /\ [][NextFetch]_vars

\* ================================================== properties of the fetcher
Searches == Count(fq.log, "search")

Returned == fq.done /\ fq.url # << >> /\ Contains(fq.url, "user=")

\* the response the returned record was built from: the last one asked for
Answer == fq.resps[Searches]

\* an attempt that yields nothing: an exception, or no author name with
\* citations and h-index both 0
NoResult(resp) ==
    \/ resp.error
    \/ /\ resp.name = NoName
       /\ Normalize(resp).Citations = 0
       /\ Normalize(resp).H_index = 0

\* C5: a profile reference without the marker "user=" makes fetch_scholar_data
\* return None at once: no API call, no retry, no pacing delay.
C5_NoMarkerNoCall ==
    (fq.done /\ ~Contains(fq.url, "user="))
        => /\ fq.data = NoneData
           /\ fq.log = << >>

C5_Witness ==
    /\ fq.done
    /\ fq.url = NoUserURL
    /\ fq.resps = <<RespA, RespA>>
    /\ fq.data = NoneData

\* C6: at most 2 API attempts per call; a first attempt that is empty or raises
\* is followed by a pacing delay and a second attempt; the first attempt with a
\* result ends the call with that result; two attempts without one give None.
C6_TwoAttempts ==
    Returned =>
        /\ Searches <= 2
        /\ ~NoResult(fq.resps[1])
              => /\ fq.log = <<"search">>
                 /\ fq.data = <<Normalize(fq.resps[1])>>
        /\ NoResult(fq.resps[1])
              => /\ SubSeq(fq.log, 1, 3) = <<"search", "sleep", "search">>
                 /\ ~NoResult(fq.resps[2])
                       => /\ fq.log = <<"search", "sleep", "search">>
                          /\ fq.data = <<Normalize(fq.resps[2])>>
                 /\ NoResult(fq.resps[2])
                       => /\ fq.data = NoneData
                          /\ Searches = 2

C6_Witness ==
    /\ Returned
    /\ fq.resps = <<RespNothing, RespA>>
    /\ fq.log = <<"search", "sleep", "search">>
    /\ fq.data # NoneData

\* what the claim and its amendment say a group yields
Windows(d) == <<d.all, d.since_2020, d.since_2019>>

FirstPresent(d) ==
    LET S == {i \in 1..3 : Windows(d)[i] # None}
    IN  IF S = {} THEN 0 ELSE Windows(d)[First(S)]

FirstNonZero(d) ==
    LET S == {i \in 1..3 : Windows(d)[i] # None /\ Windows(d)[i] # 0}
    IN  IF S = {} THEN 0 ELSE Windows(d)[First(S)]

ExampleHolds ==
    (Returned /\ fq.resps[1] = RespA)
        => fq.data = <<[Name |-> "J. Doe", Citations |-> 120,
                        H_index |-> 9, i10_index |-> 4]>>

\* C7 as stated: each group yields its all-time value when present, else the
\* first present of since_2020, since_2019, else 0; a missing group yields 0.
C7_FirstPresent ==
    (Returned /\ fq.data # NoneData) =>
        LET t == Answer.table
            m == fq.data[1]
            g(pos) == IF Len(t) >= pos THEN FirstPresent(t[pos]) ELSE 0
        IN  /\ m.Citations = g(1)
            /\ m.H_index = g(2)
            /\ m.i10_index = g(3)
            /\ ExampleHolds

\* C7 amended: each group yields the first non-zero value among all, since_2020,
\* since_2019 (in that order), else 0; a missing group yields 0; the example holds.
C7_FirstNonZero ==
    (Returned /\ fq.data # NoneData) =>
        LET t == Answer.table
            m == fq.data[1]
            g(pos) == IF Len(t) >= pos THEN FirstNonZero(t[pos]) ELSE 0
        IN  /\ m.Citations = g(1)
            /\ m.H_index = g(2)
            /\ m.i10_index = g(3)
            /\ m.Name = (IF Answer.name = NoName THEN "Unknown" ELSE Answer.name)
            /\ ExampleHolds

C7_Witness ==
    /\ Returned
    /\ fq.resps[1].name = "J. Doe"
    /\ Len(fq.resps[1].table) = 3
    /\ fq.resps[1].table[1] = [all |-> 0, since_2020 |-> 0, since_2019 |-> MaxVal + 1]
    /\ fq.resps[1].table[2].all = None
    /\ fq.resps[1].table[2].since_2020 = MaxVal
    /\ fq.data # NoneData
    /\ fq.data[1].Citations = MaxVal + 1
    /\ fq.data[1].H_index = MaxVal

\* a first response with a resolved author name, zero citations and zero h-index
ResolvedZero ==
    /\ Returned
    /\ ~fq.resps[1].error
    /\ fq.resps[1].name # NoName
    /\ Normalize(fq.resps[1]).Citations = 0
    /\ Normalize(fq.resps[1]).H_index = 0

\* C10 as stated: such a response is treated as empty and a second call is made.
C10_Misfires == ResolvedZero => Searches = 2

\* C10 amended: such a response is not treated as empty: it is returned as the
\* result of the first attempt, with no delay and no second call.
C10_NoMisfire ==
    ResolvedZero =>
        /\ fq.log = <<"search">>
        /\ fq.data # NoneData
        /\ fq.data[1].Name = fq.resps[1].name
        /\ fq.data[1].Citations = 0
        /\ fq.data[1].H_index = 0

C10_Witness ==
    /\ ResolvedZero
    /\ fq.resps = <<RespZero, RespA>>
    /\ fq.data = <<Normalize(RespZero)>>

\* ================================================= properties of the handlers
Primary == disk[DATA_PATH]

Snapshot == disk[UPDATED_PATH]

Metrics(row) == <<row.Citations, row.h_index, row.i10_index>>

\* this step is request `op` answered by one of the three single-step handlers
Handled(op) == ops' = ops + 1 /\ last'.seq = ops' /\ last'.op = op

\* the name matches rows spelled in different cases
CaseVariants(rows, name) ==
    \E i, j \in Mask(rows, name) : rows[i].Name # rows[j].Name

\* C1: a successful fetch_one for a name matching two or more rows
\* case-insensitively changes the metrics of the first matching row only; every
\* other row of the saved primary table, later case variants too, keeps its
\* Citations, h-index and i10-index.
C1_OnlyFirstRow ==
    [][(/\ Handled("fetch_one")
        /\ last'.kind = "data"
        /\ last'.save = "ok"
        /\ CaseVariants(Primary.rows, last'.name))
         => \A i \in 1..Len(Primary.rows) :
               i # First(Mask(Primary.rows, last'.name))
                  => Metrics(Primary'.rows[i]) = Metrics(Primary.rows[i])]_vars

\* the profile reference of a row is empty or does not start with a scheme
NotAURL(row) ==
    LET ref == Strip(Str(row.URL))
    IN  ref = << >> \/ ref[1] # "http"

Reported == bulk.pc = "done"

Updated(i) == bulk.called[i] /\ bulk.fetched[i] # NoneData

FailedNames ==
    LET rows == bulk.before.rows
        bad == {i \in 1..Len(rows) : NotAURL(rows[i]) \/ ~Updated(i)}
        RECURSIVE Pick(_)
        Pick(i) == IF i > Len(rows) THEN << >>
                   ELSE IF i \in bad THEN <<rows[i].Name>> \o Pick(i + 1)
                   ELSE Pick(i + 1)
    IN  Pick(1)

\* C2: update_excel over N rows reports total = N, updated = the number of rows
\* whose fetch returned a result, failed_list = the names, in table order, of
\* the rows skipped (empty or non-URL reference, never fetched) or whose fetch
\* returned None; so updated + length(failed_list) = total.
C2_Report ==
    Reported =>
        LET rows == bulk.before.rows
            N == Len(rows)
        IN  /\ bulk.report.total = N
            /\ Len(bulk.called) = N
            /\ \A i \in 1..N : NotAURL(rows[i]) <=> ~bulk.called[i]
            /\ bulk.report.updated = Cardinality({i \in 1..N : Updated(i)})
            /\ bulk.report.failed_list = FailedNames
            /\ bulk.report.updated + Len(bulk.report.failed_list) = bulk.report.total

C2_Witness ==
    /\ Reported
    /\ Len(bulk.before.rows) = 3
    /\ bulk.before.rows[1].URL = GoodURL
    /\ bulk.before.rows[2].URL = BlankURL
    /\ bulk.before.rows[3].URL = GoodURL
    /\ bulk.called = <<TRUE, FALSE, TRUE>>
    /\ bulk.fetched[1] # NoneData
    /\ bulk.fetched[3] = NoneData
    /\ bulk.sleeps[3] = 3
    /\ bulk.report = [updated |-> 1, total |-> 3, failed_list |-> <<"Bob", "Ann">>,
                      download_ready |-> TRUE]

\* C3: update_excel never writes the primary file; the whole table (fetched
\* rows with their new metrics, the others as they were) goes to the snapshot
\* file and nowhere else.
C3_PrimaryUntouched ==
    /\ bulk.pc \in {"loop", "done"} => Primary = bulk.before
    /\ (Reported /\ bulk.save = "ok") =>
          LET rows == bulk.before.rows
          IN  /\ Snapshot.exists
              /\ Len(Snapshot.rows) = Len(rows)
              /\ \A i \in 1..Len(rows) :
                    Snapshot.rows[i] =
                       IF Updated(i)
                       THEN [rows[i] EXCEPT
                               !.Citations = bulk.fetched[i][1].Citations,
                               !.h_index = bulk.fetched[i][1].H_index,
                               !.i10_index = bulk.fetched[i][1].i10_index]
                       ELSE rows[i]

C3_Witness ==
    /\ Reported
    /\ bulk.save = "ok"
    /\ Len(bulk.before.rows) >= 2
    /\ Updated(1)
    /\ ~Updated(2)
    /\ bulk.before.rows[2].Citations = 120
    /\ Snapshot.rows[2].Citations = 120
    /\ Snapshot.rows # Primary.rows

\* C4: the primary table's Sr.No values are 1..M in row order after any
\* sequence of add and delete requests; an add appends a row numbered
\* previous count + 1.
C4_DenseSerials ==
    /\ \A i \in 1..Len(Primary.rows) : Primary.rows[i].Sr_No = i
    /\ (last.op = "add_faculty" /\ last.kind = "message" /\ last.save = "ok")
          => /\ Primary.rows # << >>
             /\ Primary.rows[Len(Primary.rows)].Name = last.name
             /\ Primary.rows[Len(Primary.rows)].Sr_No = Len(Primary.rows)

C4_Witness ==
    /\ last.op = "delete_faculty"
    /\ last.kind = "message"
    /\ last.save = "ok"
    /\ last.name = "ann"
    /\ Len(Primary.rows) = 1
    /\ Primary.rows[1].Name = "Bob"
    /\ Primary.rows[1].Sr_No = 1

Sum(seq) ==
    LET RECURSIVE Add(_)
        Add(i) == IF i > Len(seq) THEN 0 ELSE seq[i] + Add(i + 1)
    IN  Add(1)

\* C8 as stated: every row, skipped rows too, takes a pacing wait, so a run
\* over N rows has waited at least N times when it reports.
C8_WaitPerRow ==
    Reported =>
        /\ \A i \in 1..Len(bulk.sleeps) : bulk.sleeps[i] >= 1
        /\ Sum(bulk.sleeps) * SLEEP_BETWEEN_CALLS
              >= Len(bulk.before.rows) * SLEEP_BETWEEN_CALLS

\* C8 amended: every row that is not skipped takes a pacing wait after its
\* fetch, whatever the fetch returned; a skipped row takes none; a run has
\* waited at least once per row not skipped when it reports.
C8_WaitPerFetchedRow ==
    Reported =>
        LET rows == bulk.before.rows
            fetchedRows == {i \in 1..Len(rows) : ~NotAURL(rows[i])}
        IN  /\ Len(bulk.sleeps) = Len(rows)
            /\ \A i \in 1..Len(rows) :
                  IF i \in fetchedRows THEN bulk.sleeps[i] >= 1 ELSE bulk.sleeps[i] = 0
            /\ Sum(bulk.sleeps) * SLEEP_BETWEEN_CALLS
                  >= Cardinality(fetchedRows) * SLEEP_BETWEEN_CALLS

C8_Witness ==
    /\ Reported
    /\ Len(bulk.before.rows) = 3
    /\ bulk.before.rows[1].URL = NoUserURL
    /\ bulk.before.rows[2].URL = NaN
    /\ bulk.before.rows[3].URL = GoodURL
    /\ bulk.sleeps = <<1, 0, 1>>

====
